---- MODULE Spec2Model ----
(***************************************************************************)
(* A model of the GitHub CLI wrapper service (src/src/github.rs,           *)
(* src/src/main.rs): nine tool handlers that build an argument vector,     *)
(* run the external program `gh`, store the outcome in the shared          *)
(* last_result cell under a tokio Mutex and shape the response.            *)
(*                                                                         *)
(* Text is modelled by TLA+ strings, except the free-form command of       *)
(* run_command, which is a sequence of one-character strings so that       *)
(* split_whitespace can look inside it; its tokens are such sequences too. *)
(* Option<T> is a sequence of length 0 (None) or 1 (Some).                 *)
(***************************************************************************)
EXTENDS Integers, Sequences, FiniteSets, TLC

\* Bounds of the model.
NumTasks == 2      \* concurrently handled calls (task slots)
MaxWorkers == 2    \* the runtime picks 1..MaxWorkers worker threads
MaxLen == 4        \* longest enumerated free-form command text

Tasks == 1..NumTasks
---------------------------------------------------------------------------
\* Option<T>

None == <<>>

Some(v) == <<v>>

unwrap_or_default(o) == IF o = None THEN "" ELSE o[1]

---------------------------------------------------------------------------
\* The external program and the executor.

\* What one invocation of `gh` can do: exit with a status and two captured
\* streams, or fail to launch with an io::Error.
Behaviours ==
    { [kind |-> "exit", code |-> c, stdout |-> o, stderr |-> e] :
          c \in {0, 1}, o \in {"", "out"}, e \in {"", "validation failed"} }
    \cup { [kind |-> "spawn_error", msg |-> "No such file or directory (os error 2)"] }

\* A faulty variant of run_gh_command: the captured stderr is kept whatever the exit status.
run_gh_command_keeps_stderr(args, b) ==
    IF b.kind = "exit"
    THEN [success |-> (b.code = 0), output |-> b.stdout, error |-> Some(b.stderr)]
    ELSE [success |-> FALSE, output |-> "",
          error |-> Some("Failed to execute command: " \o b.msg)]

\* run_gh_command(args) when the external program behaves as b.
run_gh_command(args, b) ==
    IF b.kind = "exit"
    THEN LET success == (b.code = 0)
         IN  [success |-> success,
              output  |-> b.stdout,
              error   |-> IF ~success THEN Some(b.stderr) ELSE None]
    ELSE [success |-> FALSE,
          output  |-> "",
          error   |-> Some("Failed to execute command: " \o b.msg)]

---------------------------------------------------------------------------
\* str::split_whitespace

Whitespace == {" ", "\t", "\n"}

RECURSIVE SplitAt(_, _)
\* str::split(pred): the pieces between the characters pred accepts, empty ones kept
SplitAt(s, ws) ==
    IF \A i \in 1..Len(s) : s[i] \notin ws
    THEN <<s>>
    ELSE LET i == CHOOSE k \in 1..Len(s) :
                      s[k] \in ws /\ \A j \in 1..(k - 1) : s[j] \notin ws
         IN  <<SubSeq(s, 1, i - 1)>> \o SplitAt(SubSeq(s, i + 1, Len(s)), ws)

NonEmpty(piece) == piece # <<>>

\* A faulty variant of split_whitespace: the text is split at single spaces only.
split_on_space(s) == SplitAt(s, {" "})

\* str::split_whitespace: split at whitespace, empty pieces filtered out
split_whitespace(s) == SelectSeq(SplitAt(s, Whitespace), NonEmpty)

---------------------------------------------------------------------------
\* Argument vectors, one operator per handler.

list_repos_args == <<"repo", "list", "--json", "name,description,url">>

repo_view_args(param) ==
    LET repo == param.owner \o "/" \o param.repo
    IN  <<"repo", "view", repo, "--json", "name,description,url,stars,forks,watchers">>

list_issues_args(param) ==
    LET repo == param.owner \o "/" \o param.repo
    IN  <<"issue", "list", "--repo", repo, "--json", "number,title,state,url">>

\* A faulty variant of create_issue_args: an absent body is passed as an empty --body.
create_issue_args_placeholder(param) ==
    <<"issue", "create">>
    \o (IF param.repo # None THEN <<"--repo", param.repo[1]>> ELSE <<>>)
    \o <<"--title", param.title>>
    \o <<"--body", unwrap_or_default(param.body)>>

create_issue_args(param) ==
    <<"issue", "create">>
    \o (IF param.repo # None THEN <<"--repo", param.repo[1]>> ELSE <<>>)
    \o <<"--title", param.title>>
    \o (IF param.body # None THEN <<"--body", param.body[1]>> ELSE <<>>)

list_prs_args(param) ==
    LET repo == param.owner \o "/" \o param.repo
    IN  <<"pr", "list", "--repo", repo, "--json", "number,title,state,url">>

create_pr_args(param) ==
    <<"pr", "create">>
    \o (IF param.repo # None THEN <<"--repo", param.repo[1]>> ELSE <<>>)
    \o <<"--title", param.title>>
    \o (IF param.body # None THEN <<"--body", param.body[1]>> ELSE <<>>)
    \o <<"--base", param.base>>
    \o <<"--head", param.head>>

clone_repo_args(param) ==
    <<"repo", "clone", param.repo>>
    \o (IF param.directory # None THEN <<param.directory[1]>> ELSE <<>>)

run_command_args(command) == split_whitespace(command)

auth_status_args == <<"auth", "status">>

\* The argument vector the handler of req.op builds from its parameters.
BuildArgs(req) ==
    CASE req.op = "list_repos"   -> list_repos_args
      [] req.op = "repo_view"    -> repo_view_args(req)
      [] req.op = "list_issues"  -> list_issues_args(req)
      [] req.op = "create_issue" -> create_issue_args(req)
      [] req.op = "list_prs"     -> list_prs_args(req)
      [] req.op = "create_pr"    -> create_pr_args(req)
      [] req.op = "clone_repo"   -> clone_repo_args(req)
      [] req.op = "run_command"  -> run_command_args(req.command)
      [] req.op = "auth_status"  -> auth_status_args

---------------------------------------------------------------------------
\* Responses: Result<CallToolResult, McpError>.

\* Ok(CallToolResult::success(vec![Content::text(text)]))
Success(text) == [ok |-> TRUE, content |-> <<text>>]

\* Err(McpError::internal_error(message, Some(json!({"error": detail}))))
InternalError(message, detail) ==
    [ok |-> FALSE, kind |-> "internal_error", message |-> message,
     data |-> Some([error |-> detail])]

\* The tail every handler but auth_status ends with.
Reply(message, result) ==
    IF result.success
    THEN Success(result.output)
    ELSE InternalError(message, unwrap_or_default(result.error))

list_repos_reply(result) == Reply("Failed to get repository list", result)

repo_view_reply(result) == Reply("Failed to get repository information", result)

list_issues_reply(result) == Reply("Failed to get issues list", result)

\* A faulty variant of create_issue_reply: a failure is answered without its error detail.
create_issue_reply_drops_detail(result) ==
    IF result.success
    THEN Success(result.output)
    ELSE InternalError("Failed to create issue", "")

create_issue_reply(result) == Reply("Failed to create issue", result)

\* A faulty variant of list_prs_reply: the summary quotes the error detail.
list_prs_reply_quotes_detail(result) ==
    Reply("Failed to get pull requests list: " \o unwrap_or_default(result.error), result)

list_prs_reply(result) == Reply("Failed to get pull requests list", result)

create_pr_reply(result) == Reply("Failed to create pull request", result)

clone_repo_reply(result) == Reply("Failed to clone repository", result)

run_command_reply(result) == Reply("Failed to execute command", result)

\* A faulty variant of auth_status_reply: a failed check is answered like any other failure.
auth_status_reply_checks(result) == Reply("Failed to get authentication status", result)

auth_status_reply(result) == Success(result.output)

\* The response the handler of op returns for the outcome result.
Respond(op, result) ==
    CASE op = "list_repos"   -> list_repos_reply(result)
      [] op = "repo_view"    -> repo_view_reply(result)
      [] op = "list_issues"  -> list_issues_reply(result)
      [] op = "create_issue" -> create_issue_reply(result)
      [] op = "list_prs"     -> list_prs_reply(result)
      [] op = "create_pr"    -> create_pr_reply(result)
      [] op = "clone_repo"   -> clone_repo_reply(result)
      [] op = "run_command"  -> run_command_reply(result)
      [] op = "auth_status"  -> auth_status_reply(result)

---------------------------------------------------------------------------
\* Inputs.

Alphabet == {"p", "-", " ", "\t"}

\* "pr list --repo o/r"
PrListText ==
    <<"p", "r", " ", "l", "i", "s", "t", " ", "-", "-", "r", "e", "p", "o", " ", "o", "/", "r">>

\* "\n auth  status\t"
PaddedText == <<"\n", " ", "a", "u", "t", "h", " ", " ", "s", "t", "a", "t", "u", "s", "\t">>

Texts == UNION { [1..n -> Alphabet] : n \in 0..MaxLen } \cup {PrListText, PaddedText}

OptTexts == {None, Some(""), Some("b"), Some("two words")}

\* Every shape of request the argument builders are applied to.
AllRequests ==
    { [op |-> "list_repos"], [op |-> "auth_status"] }
    \cup { [op |-> o, owner |-> w, repo |-> r] :
               o \in {"repo_view", "list_issues", "list_prs"},
               w \in {"octocat", "o"}, r \in {"hello-world", "r"} }
    \cup { [op |-> "create_issue", title |-> t, body |-> b, repo |-> r] :
               t \in {"bug", "t", "a b"}, b \in OptTexts, r \in {None, Some("o/r")} }
    \cup { [op |-> "create_pr", title |-> t, body |-> b, base |-> "main", head |-> h, repo |-> r] :
               t \in {"t", "a b"}, b \in OptTexts, h \in {"feat", "my feat"},
               r \in {None, Some("o/r")} }
    \cup { [op |-> "clone_repo", repo |-> "o/r", directory |-> d] : d \in OptTexts }
    \cup { [op |-> "run_command", command |-> c] : c \in Texts }

\* create_pr(title="t", base="main", head="feat", repo="o/r"), no body
ScenarioC ==
    [op |-> "create_pr", title |-> "t", body |-> None, base |-> "main", head |-> "feat",
     repo |-> Some("o/r")]

\* One request of each operation, for the calls whose outcome is followed.
OneOfEach ==
    { [op |-> "list_repos"],
      [op |-> "repo_view", owner |-> "octocat", repo |-> "hello-world"],
      [op |-> "list_issues", owner |-> "o", repo |-> "r"],
      [op |-> "create_issue", title |-> "bug", body |-> None, repo |-> None],
      [op |-> "list_prs", owner |-> "o", repo |-> "r"],
      ScenarioC,
      [op |-> "clone_repo", repo |-> "o/r", directory |-> None],
      [op |-> "run_command", command |-> PrListText],
      [op |-> "auth_status"] }

ExitOk == [kind |-> "exit", code |-> 0, stdout |-> "out", stderr |-> ""]

ExitFail == [kind |-> "exit", code |-> 1, stdout |-> "", stderr |-> "validation failed"]

SpawnError == [kind |-> "spawn_error", msg |-> "No such file or directory (os error 2)"]

\* The requests slot t receives and the behaviours its invocation of gh can
\* show.  "full": slot 1 makes one call of each operation against every
\* behaviour while the other slots run auth_status in the background.
\* "conc": every slot makes the same few calls.
\* "lock": every slot makes the same call of create_pr.
RequestsOf(m, t) ==
    CASE m = "full" -> (IF t = 1 THEN OneOfEach ELSE {[op |-> "auth_status"]})
      [] m = "conc" -> {[op |-> "list_repos"], [op |-> "auth_status"]}
      [] m = "lock" -> {ScenarioC}

BehavioursOf(m, t) ==
    CASE m = "full" -> (IF t = 1 THEN Behaviours ELSE {ExitOk})
      [] m = "conc" -> {ExitOk, ExitFail, SpawnError}
      [] m = "lock" -> {ExitOk, ExitFail}

---------------------------------------------------------------------------
\* The service.

VARIABLES
    mode,         \* which inputs the run draws (fixed by Init)
    workers,      \* worker threads of the tokio runtime (fixed by Init)
    pc,           \* pc[t]: where call t is
    req,          \* req[t]: Some(request) of call t
    argv,         \* argv[t]: Some(argument vector) once built
    nInv,         \* nInv[t]: invocations of gh call t has issued
    beh,          \* beh[t]: Some(behaviour) the invocation showed
    result,       \* result[t]: Some(CommandResult) once run_gh_command returned
    resp,         \* resp[t]: Some(response) once the handler returned
    last_result,  \* the shared cell: Option<CommandResult>
    lock,         \* Some(the task owning the Mutex's permit), or None
    waiters,      \* the Mutex's FIFO queue of parked tasks
    lastWrite,    \* history: Some(outcome) of the latest overwrite
    prior         \* history: prior[t], the cell as call t found it when it started

vars == <<mode, workers, pc, req, argv, nInv, beh, result, resp, last_result,
          lock, waiters, lastWrite, prior>>

\* A task in one of these places occupies a worker thread.
OnWorker == {"running", "exited", "locked", "written"}

FreeWorker == Cardinality({t \in Tasks : pc[t] \in OnWorker}) < workers

\* GitHubService::new and the runtime's start.
InitService(m) ==
    /\ mode = m
    /\ workers \in 1..MaxWorkers
    /\ pc = [t \in Tasks |-> "idle"]
    /\ req = [t \in Tasks |-> None]
    /\ argv = [t \in Tasks |-> None]
    /\ nInv = [t \in Tasks |-> 0]
    /\ beh = [t \in Tasks |-> None]
    /\ result = [t \in Tasks |-> None]
    /\ resp = [t \in Tasks |-> None]
    /\ last_result = None
    /\ lock = None
    /\ waiters = <<>>
    /\ lastWrite = None
    /\ prior = [t \in Tasks |-> "none"]

Init == InitService("full")

\* A call of any shape has arrived at slot 1 of a fresh service.
InitArgs ==
    \E r \in AllRequests :
        /\ mode = "args"
        /\ workers \in 1..MaxWorkers
        /\ pc = [t \in Tasks |-> IF t = 1 THEN "spawned" ELSE "idle"]
        /\ req = [t \in Tasks |-> IF t = 1 THEN Some(r) ELSE None]
        /\ argv = [t \in Tasks |-> None]
        /\ nInv = [t \in Tasks |-> 0]
        /\ beh = [t \in Tasks |-> None]
        /\ result = [t \in Tasks |-> None]
        /\ resp = [t \in Tasks |-> None]
        /\ last_result = None
        /\ lock = None
        /\ waiters = <<>>
        /\ lastWrite = None
        /\ prior = [t \in Tasks |-> "none"]

InitConc == InitService("conc")

InitLock == InitService("lock")

\* What a starting call would find in the cell.
Seen(cell) ==
    IF cell = None THEN "empty" ELSE IF cell[1].success THEN "success" ELSE "failure"

\* A tool call arrives and is spawned as a task of its own.
Spawn(t, r) ==
    /\ pc[t] \in {"idle", "done"}
    /\ pc' = [pc EXCEPT ![t] = "spawned"]
    /\ req' = [req EXCEPT ![t] = Some(r)]
    /\ argv' = [argv EXCEPT ![t] = None]
    /\ nInv' = [nInv EXCEPT ![t] = 0]
    /\ beh' = [beh EXCEPT ![t] = None]
    /\ result' = [result EXCEPT ![t] = None]
    /\ resp' = [resp EXCEPT ![t] = None]
    /\ prior' = [prior EXCEPT ![t] = "none"]
    /\ UNCHANGED <<mode, workers, last_result, lock, waiters, lastWrite>>

\* A faulty variant of Start: the handler takes the lock before it runs the command.
StartHoldingLock(t) ==
    /\ pc[t] = "spawned"
    /\ FreeWorker
    /\ lock = None
    /\ lock' = Some(t)
    /\ pc' = [pc EXCEPT ![t] = "running"]
    /\ argv' = [argv EXCEPT ![t] = Some(BuildArgs(req[t][1]))]
    /\ nInv' = [nInv EXCEPT ![t] = @ + 1]
    /\ prior' = [prior EXCEPT ![t] = Seen(last_result)]
    /\ UNCHANGED <<mode, workers, req, beh, result, resp, last_result, waiters, lastWrite>>

\* A faulty variant of Start: a call that finds a success in the cell reuses it.
StartCached(t) ==
    /\ pc[t] = "spawned"
    /\ FreeWorker
    /\ argv' = [argv EXCEPT ![t] = Some(BuildArgs(req[t][1]))]
    /\ prior' = [prior EXCEPT ![t] = Seen(last_result)]
    /\ IF Seen(last_result) = "success"
       THEN /\ pc' = [pc EXCEPT ![t] = "exited"]
            /\ result' = [result EXCEPT ![t] = last_result]
            /\ beh' = [beh EXCEPT ![t] = Some(ExitOk)]
            /\ UNCHANGED nInv
       ELSE /\ pc' = [pc EXCEPT ![t] = "running"]
            /\ nInv' = [nInv EXCEPT ![t] = @ + 1]
            /\ UNCHANGED <<result, beh>>
    /\ UNCHANGED <<mode, workers, req, resp, last_result, lock, waiters, lastWrite>>

\* A worker thread polls the task: the handler builds its argument vector and
\* run_gh_command launches `gh` and blocks the thread in Command::output.
Start(t) ==
    /\ pc[t] = "spawned"
    /\ FreeWorker
    /\ pc' = [pc EXCEPT ![t] = "running"]
    /\ argv' = [argv EXCEPT ![t] = Some(BuildArgs(req[t][1]))]
    /\ nInv' = [nInv EXCEPT ![t] = @ + 1]
    /\ prior' = [prior EXCEPT ![t] = Seen(last_result)]
    /\ UNCHANGED <<mode, workers, req, beh, result, resp, last_result, lock, waiters, lastWrite>>

\* Command::output returns (the program exited, or could not be launched) and
\* run_gh_command builds the CommandResult.
ProcessEnd(t, b) ==
    /\ pc[t] = "running"
    /\ pc' = [pc EXCEPT ![t] = "exited"]
    /\ beh' = [beh EXCEPT ![t] = Some(b)]
    /\ result' = [result EXCEPT ![t] = Some(run_gh_command(argv[t][1], b))]
    /\ UNCHANGED <<mode, workers, req, argv, nInv, resp, last_result, lock, waiters,
                   lastWrite, prior>>

\* self.last_result.lock().await: the permit is taken when it is free; otherwise
\* the task joins the queue and yields its worker thread.
Lock(t) ==
    /\ pc[t] = "exited"
    /\ IF lock = None
       THEN /\ lock' = Some(t)
            /\ pc' = [pc EXCEPT ![t] = "locked"]
            /\ UNCHANGED waiters
       ELSE /\ waiters' = Append(waiters, t)
            /\ pc' = [pc EXCEPT ![t] = "parked"]
            /\ UNCHANGED lock
    /\ UNCHANGED <<mode, workers, req, argv, nInv, beh, result, resp, last_result,
                   lastWrite, prior>>

\* A parked task that was handed the permit is polled again and gets its guard.
Resume(t) ==
    /\ pc[t] = "parked"
    /\ lock = Some(t)
    /\ FreeWorker
    /\ pc' = [pc EXCEPT ![t] = "locked"]
    /\ UNCHANGED <<mode, workers, req, argv, nInv, beh, result, resp, last_result,
                   lock, waiters, lastWrite, prior>>

\* A faulty variant of Store: only a successful outcome is remembered.
StoreIfSuccess(cell, r) == IF r.success THEN Some(r) ELSE cell

\* *last_result = Some(result.clone())
Store(cell, r) == Some(r)

Overwrite(t) ==
    /\ pc[t] = "locked"
    /\ last_result' = Store(last_result, result[t][1])
    /\ lastWrite' = Some(result[t][1])
    /\ pc' = [pc EXCEPT ![t] = "written"]
    /\ UNCHANGED <<mode, workers, req, argv, nInv, beh, result, resp, lock, waiters, prior>>

\* The handler shapes its response and returns; the guard is dropped, which
\* hands the permit to the first parked task, if any.
Return(t) ==
    /\ pc[t] = "written"
    /\ resp' = [resp EXCEPT ![t] = Some(Respond(req[t][1].op, result[t][1]))]
    /\ pc' = [pc EXCEPT ![t] = "done"]
    /\ IF waiters = <<>>
       THEN lock' = None /\ UNCHANGED waiters
       ELSE lock' = Some(Head(waiters)) /\ waiters' = Tail(waiters)
    /\ UNCHANGED <<mode, workers, req, argv, nInv, beh, result, last_result, lastWrite, prior>>

Next ==
    \E t \in Tasks :
        \/ \E r \in RequestsOf(mode, t) : Spawn(t, r)
        \/ Start(t)
        \/ \E b \in BehavioursOf(mode, t) : ProcessEnd(t, b)
        \/ Lock(t)
        \/ Resume(t)
        \/ Overwrite(t)
        \/ Return(t)

Spec == Init /\ [][Next]_vars

\* The argument builders alone: the call that has arrived is started.
NextArgs == \E t \in Tasks : Start(t)

SpecArgs == InitArgs /\ [][NextArgs]_vars

SpecConc == InitConc /\ [][Next]_vars

\* Between lock().await returning and the handler's return there is no await:
\* the task keeps its worker thread and runs on.
FairSpecLock ==
    /\ InitLock /\ [][Next]_vars
    /\ \A t \in Tasks : WF_vars(Overwrite(t)) /\ WF_vars(Return(t))

---------------------------------------------------------------------------
\* Properties.

Done(t) == pc[t] = "done"

OpOf(t) == req[t][1].op

Shaped == {"list_repos", "repo_view", "list_issues", "create_issue", "list_prs",
           "create_pr", "clone_repo", "run_command"}

\* C1: a returned call of any operation but auth_status answers a successful
\* outcome with a success whose one text is the outcome's output, and a failed
\* outcome with an error whose context is {"error": the outcome's error detail}.
C1_FailureSurfaced ==
    \A t \in Tasks :
        (Done(t) /\ OpOf(t) \in Shaped) =>
            LET r == result[t][1]
                o == resp[t][1]
            IN  IF r.success
                THEN o.ok /\ o.content = <<r.output>>
                ELSE /\ ~o.ok
                     /\ o.kind = "internal_error"
                     /\ r.error # None
                     /\ o.data = Some([error |-> r.error[1]])

\* Scenario B: create_issue against a program that exits 1 writing
\* "validation failed" has returned its error.
C1_Witness ==
    \E t \in Tasks :
        /\ Done(t)
        /\ req[t] = Some([op |-> "create_issue", title |-> "bug", body |-> None, repo |-> None])
        /\ beh[t] = Some(ExitFail)
        /\ ~resp[t][1].ok
        /\ resp[t][1].data = Some([error |-> "validation failed"])

\* The summaries as section 4.2 of the specification words them.
TableSummary(op) ==
    CASE op = "list_repos"   -> "failed to list repositories"
      [] op = "repo_view"    -> "failed to get repository information"
      [] op = "list_issues"  -> "failed to list issues"
      [] op = "create_issue" -> "failed to create issue"
      [] op = "list_prs"     -> "failed to list pull requests"
      [] op = "create_pr"    -> "failed to create pull request"
      [] op = "clone_repo"   -> "failed to clone repository"
      [] op = "run_command"  -> "failed to execute command"

\* The summaries of the amended claim.
AmendedSummary(op) ==
    CASE op = "list_repos"   -> "Failed to get repository list"
      [] op = "repo_view"    -> "Failed to get repository information"
      [] op = "list_issues"  -> "Failed to get issues list"
      [] op = "create_issue" -> "Failed to create issue"
      [] op = "list_prs"     -> "Failed to get pull requests list"
      [] op = "create_pr"    -> "Failed to create pull request"
      [] op = "clone_repo"   -> "Failed to clone repository"
      [] op = "run_command"  -> "Failed to execute command"

FailedCall(t) == Done(t) /\ OpOf(t) \in Shaped /\ ~result[t][1].success

C3_AuthStatusAlwaysSuccess ==
    \A t \in Tasks :
        (req[t] # None /\ OpOf(t) = "auth_status") =>
            /\ argv[t] # None => argv[t][1] = <<"auth", "status">>
            /\ Done(t) => /\ resp[t][1].ok
                          /\ resp[t][1].content = <<result[t][1].output>>

\* auth_status has returned after gh could not be launched.
C3_Witness ==
    \E t \in Tasks :
        /\ Done(t)
        /\ OpOf(t) = "auth_status"
        /\ beh[t] = Some(SpawnError)
        /\ ~result[t][1].success
        /\ resp[t][1].ok

\* The tokens an optional field contributes after its flag.
Flagged(flag, o) == IF o = None THEN <<>> ELSE <<flag, o[1]>>

Present(o) == IF o = None THEN 0 ELSE 1

\* C4: the argument vectors of create_issue, create_pr and clone_repo are those
\* of the table: the fixed order, no token for an absent optional field, its
\* flag and its value as one token each for a present one.
C4_ArgumentVectors ==
    \A t \in Tasks :
        (argv[t] # None /\ OpOf(t) \in {"create_issue", "create_pr", "clone_repo"}) =>
            LET q == req[t][1]
                a == argv[t][1]
            IN  CASE q.op = "create_issue" ->
                       /\ a = <<"issue", "create">> \o Flagged("--repo", q.repo)
                              \o <<"--title", q.title>> \o Flagged("--body", q.body)
                       /\ Len(a) = 4 + 2 * Present(q.repo) + 2 * Present(q.body)
                  [] q.op = "create_pr" ->
                       /\ a = <<"pr", "create">> \o Flagged("--repo", q.repo)
                              \o <<"--title", q.title>> \o Flagged("--body", q.body)
                              \o <<"--base", q.base, "--head", q.head>>
                       /\ Len(a) = 8 + 2 * Present(q.repo) + 2 * Present(q.body)
                       /\ q = ScenarioC =>
                              a = <<"pr", "create", "--repo", "o/r", "--title", "t",
                                    "--base", "main", "--head", "feat">>
                  [] q.op = "clone_repo" ->
                       /\ a = <<"repo", "clone", q.repo>>
                              \o (IF q.directory = None THEN <<>> ELSE <<q.directory[1]>>)
                       /\ Len(a) = 3 + Present(q.directory)

\* create_issue was called with a title of two words, no body and no
\* repository, and its vector is built.
C4_Witness ==
    \E t \in Tasks :
        /\ req[t] = Some([op |-> "create_issue", title |-> "a b", body |-> None, repo |-> None])
        /\ argv[t] = Some(<<"issue", "create", "--title", "a b">>)

NotWs(c) == c \notin Whitespace

RECURSIVE Flatten(_)
\* the tokens one after the other
Flatten(toks) == IF toks = <<>> THEN <<>> ELSE Head(toks) \o Flatten(Tail(toks))

RECURSIVE JoinWithSpaces(_)
JoinWithSpaces(toks) ==
    IF toks = <<>> THEN <<>>
    ELSE IF Len(toks) = 1 THEN Head(toks)
    ELSE Head(toks) \o <<" ">> \o JoinWithSpaces(Tail(toks))

RECURSIVE NormaliseFrom(_, _, _)
\* the rest of s from position i with each run of whitespace between two words
\* turned into one space, and the whitespace before the first word and after
\* the last one dropped
NormaliseFrom(s, i, seenWord) ==
    IF i > Len(s) THEN <<>>
    ELSE IF s[i] \in Whitespace THEN NormaliseFrom(s, i + 1, seenWord)
    ELSE (IF seenWord /\ s[i - 1] \in Whitespace THEN <<" ">> ELSE <<>>)
         \o <<s[i]>> \o NormaliseFrom(s, i + 1, TRUE)

Normalise(s) == NormaliseFrom(s, 1, FALSE)

\* C5: run_command's argument vector is its text split at whitespace: no token
\* is empty or holds whitespace, the tokens joined by single spaces are the text
\* with its whitespace normalised, and no character of a word is lost or changed.
C5_SplitOnWhitespace ==
    \A t \in Tasks :
        (argv[t] # None /\ OpOf(t) = "run_command") =>
            LET text == req[t][1].command
                toks == argv[t][1]
            IN  /\ \A i \in 1..Len(toks) :
                       /\ toks[i] # <<>>
                       /\ \A j \in 1..Len(toks[i]) : toks[i][j] \notin Whitespace
                /\ JoinWithSpaces(toks) = Normalise(text)
                /\ Flatten(toks) = SelectSeq(text, NotWs)
                /\ text = PrListText =>
                       toks = << <<"p", "r">>, <<"l", "i", "s", "t">>,
                                 <<"-", "-", "r", "e", "p", "o">>, <<"o", "/", "r">> >>

\* run_command was called with a text that starts and ends with whitespace and
\* holds a run of two spaces, and its vector is the two words.
C5_Witness ==
    \E t \in Tasks :
        /\ req[t] = Some([op |-> "run_command", command |-> PaddedText])
        /\ argv[t] = Some(<< <<"a", "u", "t", "h">>, <<"s", "t", "a", "t", "u", "s">> >>)

WellFormed(r) == (r.error # None) <=> ~r.success

\* C6: every outcome a call holds and the outcome in the shared cell has an
\* error detail exactly when it did not succeed: none after a zero exit, the
\* captured stderr (empty or not) after a non-zero exit, and after a launch
\* failure an empty output and a non-empty description.
C6_ErrorIffFailed ==
    /\ last_result # None => WellFormed(last_result[1])
    /\ \A t \in Tasks :
           result[t] # None =>
               LET r == result[t][1]
                   b == beh[t][1]
               IN  /\ WellFormed(r)
                   /\ (b.kind = "exit" /\ b.code = 0) => (r.success /\ r.error = None)
                   /\ (b.kind = "exit" /\ b.code # 0) =>
                          (~r.success /\ r.error = Some(b.stderr))
                   /\ b.kind = "spawn_error" =>
                          /\ ~r.success
                          /\ r.output = ""
                          /\ r.error # None
                          /\ r.error[1] # ""

\* The cell holds the outcome of a program that exited non-zero and wrote
\* nothing to stderr: its error detail is present and empty.
C6_Witness ==
    /\ last_result # None
    /\ ~last_result[1].success
    /\ last_result[1].error = Some("")
    /\ \E t \in Tasks : Done(t) /\ result[t] = last_result

\* What holds of the cell in every state.
C7_Cell ==
    /\ last_result = lastWrite
    /\ \A t \in Tasks : pc[t] = "written" => last_result = result[t]
    /\ \A t \in Tasks : pc[t] \in {"written", "done"} => last_result # None

\* What holds of every step: the cell changes only in the overwrite of a call
\* holding the lock, to that call's outcome, and the cell holds a call's outcome
\* at the moment the call returns.
C7_Step ==
    /\ last_result' # last_result =>
           \E t \in Tasks :
               pc[t] = "locked" /\ pc'[t] = "written" /\ last_result' = result[t]
    /\ \A t \in Tasks :
           (pc[t] = "written" /\ pc'[t] = "done") => last_result' = result'[t]

\* C7: the cell always equals the outcome of the latest overwrite (it is empty
\* only before the first one), every call, failed or not, has overwritten it
\* with its own outcome before it returns, and nothing but a call's overwrite
\* changes it.
C7_CellIsLatestOverwrite == []C7_Cell /\ [][C7_Step]_vars

\* A call has returned a success and, after it, another call has overwritten
\* the cell with its failure and not yet returned.
C7_Witness ==
    \E t, u \in Tasks :
        /\ t # u
        /\ Done(t)
        /\ result[t][1].success
        /\ pc[u] = "written"
        /\ ~result[u][1].success
        /\ last_result = result[u]

Guarded == {"locked", "written"}

\* What holds of the lock in every state.
C8_Lock ==
    /\ Cardinality({t \in Tasks : pc[t] \in Guarded}) <= 1
    /\ \A t \in Tasks :
           /\ pc[t] \in Guarded => lock = Some(t)
           /\ lock = Some(t) => /\ pc[t] \in {"parked", "locked", "written"}
                          /\ result[t] # None
           /\ pc[t] \in {"idle", "spawned", "running", "exited", "done"} => lock # Some(t)
           /\ pc[t] = "parked" => /\ lock # None
                                  /\ result[lock[1]] # None
                                  /\ pc[lock[1]] \in {"parked", "locked", "written"}

\* C8: no call owns the lock while its command is launched or awaited: the lock
\* is taken after run_gh_command has returned and given up when the handler
\* returns, at most one call holds it, a parked call waits only on a call whose
\* command has ended, and a call that holds the lock goes on to release it.
C8_LockNeverSpansTheWait ==
    []C8_Lock /\ \A t \in Tasks : (pc[t] \in Guarded) ~> (lock # Some(t))

\* One call is parked on the lock while another, whose command has ended and
\* whose overwrite is done, holds it.
C8_Witness ==
    \E t, u \in Tasks :
        /\ pc[t] = "parked"
        /\ pc[u] = "written"
        /\ lock = Some(u)
        /\ waiters = <<t>>

\* C9: while a call is in its process wait, any other pending call can start.
C9_WaitDoesNotStall ==
    \A t, u \in Tasks :
        (pc[t] = "running" /\ pc[u] = "spawned") => ENABLED Start(u)

\* C10: every returned call has issued exactly one invocation, and two calls
\* with the same request whose invocations behaved alike have built the same
\* argument vector and returned the same response, whatever the cell held when
\* each started.
C10_ResponseIgnoresHistory ==
    /\ \A t \in Tasks : nInv[t] <= 1 /\ (pc[t] \in {"running", "exited", "parked", "locked", "written", "done"} => nInv[t] = 1)
    /\ \A t, u \in Tasks :
           (Done(t) /\ Done(u) /\ req[t] = req[u] /\ beh[t] = beh[u]) =>
               /\ argv[t] = argv[u]
               /\ resp[t] = resp[u]

\* Two calls of list_repos whose command failed alike have returned the same
\* error; one started on an empty cell, the other on a cell holding a success.
C10_Witness ==
    \E t, u \in Tasks :
        /\ Done(t) /\ Done(u)
        /\ req[t] = Some([op |-> "list_repos"]) /\ req[u] = req[t]
        /\ beh[t] = Some(ExitFail) /\ beh[u] = beh[t]
        /\ prior[t] = "empty"
        /\ prior[u] = "success"
        /\ resp[t] = resp[u]
        /\ ~resp[t][1].ok

====
